---- MODULE Spec2Model ----
(***************************************************************************)
(* A model of pytest_reqs.py: the pytest plugin that collects requirements *)
(* files, joins every declared requirement against the installed           *)
(* distributions and the output of `pip list -o`, and reports mismatches   *)
(* as test failures.                                                       *)
(*                                                                         *)
(* Text (paths, glob patterns, names, ini values) is modelled as sequences *)
(* of one-character strings so that lower(), fnmatch, the `in` substring   *)
(* test and the '^-e' regular expression are computed, not assumed.        *)
(***************************************************************************)
EXTENDS Naturals, Sequences, FiniteSets, TLC

VARIABLES env, config, phase, idx, reqsfiles, subprocess_calls, run, history

vars == <<env, config, phase, idx, reqsfiles, subprocess_calls, run, history>>

(***************************************************************************)
(* Bounds of the model.                                                    *)
(***************************************************************************)
\* number of test runs over the same environment
MaxRuns == 2
\* number of lines of the requirements file whose content is enumerated
MaxLines == 2

(***************************************************************************)
(* Text helpers.                                                           *)
(***************************************************************************)
UpperToLower ==
    [c \in {"D", "J", "F", "L", "T", "Y", "N"} |->
        CASE c = "D" -> "d" [] c = "J" -> "j" [] c = "F" -> "f"
          [] c = "L" -> "l" [] c = "T" -> "t" [] c = "Y" -> "y"
          [] c = "N" -> "n"]

\* str.lower()
Lower(s) ==
    [i \in 1..Len(s) |-> IF s[i] \in DOMAIN UpperToLower THEN UpperToLower[s[i]] ELSE s[i]]

\* s.startswith(p)
StartsWith(s, p) ==
    /\ Len(p) <= Len(s)
    /\ SubSeq(s, 1, Len(p)) = p

\* `p in s` on strings
Contains(s, p) ==
    \E i \in 0..(Len(s) - Len(p)) : SubSeq(s, i + 1, i + Len(p)) = p

\* s.find(c) # -1 for a one-character c
HasChar(s, c) == \E i \in 1..Len(s) : s[i] = c

\* the part of a path after its last separator
Basename(p) ==
    LET seps == {i \in 1..Len(p) : p[i] = "/"}
        last == IF seps = {} THEN 0 ELSE CHOOSE i \in seps : \A j \in seps : j <= i
    IN  SubSeq(p, last + 1, Len(p))

\* fnmatch.fnmatch(name, pat) on posix: '*' matches any run of characters
\* (path separators included), '?' any one character, the rest literally
RECURSIVE FnMatch(_, _)
FnMatch(name, pat) ==
    IF pat = <<>> THEN name = <<>>
    ELSE IF Head(pat) = "*"
         THEN \E k \in 0..Len(name) : FnMatch(SubSeq(name, k + 1, Len(name)), Tail(pat))
    ELSE IF name = <<>> THEN FALSE
    ELSE /\ (Head(pat) = "?" \/ Head(pat) = Head(name))
         /\ FnMatch(Tail(name), Tail(pat))

\* py.path.local.check(fnmatch=glob): a pattern without a separator is
\* matched against the basename, any other relative pattern against the
\* whole path with '*/' put before it
PathCheckFnmatch(path, glob) ==
    IF ~HasChar(glob, "/") THEN FnMatch(Basename(path), glob)
    ELSE IF Head(glob) = "/" THEN FnMatch(path, glob)
    ELSE FnMatch(path, <<"*", "/">> \o glob)

DEFAULT_PATTERNS ==
    << <<"r", "e", "q", "*", ".", "t", "x", "t">>,
       <<"r", "e", "q", "*", ".", "p", "i", "p">>,
       <<"r", "e", "q", "u", "i", "r", "e", "m", "e", "n", "t", "s", "/", "*", ".", "t", "x", "t">>,
       <<"r", "e", "q", "u", "i", "r", "e", "m", "e", "n", "t", "s", "/", "*", ".", "p", "i", "p">> >>

\* an attribute that may be missing from an object: hasattr / None
Absent == [has |-> FALSE]
Present(v) == [has |-> TRUE, val |-> v]

\* a faulty _is_requirements: the configured patterns are added to the
\* defaults instead of replacing them
IsRequirementsExtend(cfg, path) ==
    LET globs == cfg.patterns.val \o DEFAULT_PATTERNS
    IN  \E g \in 1..Len(globs) : PathCheckFnmatch(path, globs[g])

\* _is_requirements(config, path)
IsRequirements(cfg, path) ==
    LET globs == IF cfg.patterns.val # <<>> THEN cfg.patterns.val ELSE DEFAULT_PATTERNS
    IN  \E g \in 1..Len(globs) : PathCheckFnmatch(path, globs[g])

(***************************************************************************)
(* Configuration: pytest_addoption and pytest_sessionstart.                *)
(***************************************************************************)
StrToBoolTrue ==
    { <<"y">>, <<"y", "e", "s">>, <<"t">>, <<"t", "r", "u", "e">>, <<"o", "n">>, <<"1">> }

StrToBoolFalse ==
    { <<"n">>, <<"n", "o">>, <<"f">>, <<"f", "a", "l", "s", "e">>, <<"o", "f", "f">>, <<"0">> }

\* distutils.util.strtobool: 1, 0, or ValueError for any other text
StrToBool(val) ==
    LET v == Lower(val)
    IN  IF v \in StrToBoolTrue THEN Present(1)
        ELSE IF v \in StrToBoolFalse THEN Present(0)
        ELSE Absent

\* Python truth of an ignore_local value (an int here)
Truthy(v) == v # 0

\* the text `config.getini('reqsignorelocal') or 'no'`
IgnoreLocalText(ini) == IF ini # <<>> THEN ini ELSE <<"n", "o">>

\* a faulty pytest_sessionstart: the hasattr guards are missing
SessionStartOverwrite(cfg, e) ==
    LET il == StrToBool(IgnoreLocalText(e.ini_reqsignorelocal))
    IN  [raised |-> ~il.has,
         config |-> [ignore_local |-> il, patterns |-> Present(e.ini_reqsfilenamepatterns)]]

\* pytest_sessionstart(session): the config it leaves, or a ValueError
SessionStart(cfg, e) ==
    LET il == IF ~cfg.ignore_local.has
              THEN StrToBool(IgnoreLocalText(e.ini_reqsignorelocal))
              ELSE cfg.ignore_local
        pt == IF ~cfg.patterns.has
              THEN Present(e.ini_reqsfilenamepatterns)
              ELSE cfg.patterns
    IN  [raised |-> ~il.has, config |-> [ignore_local |-> il, patterns |-> pt]]

(***************************************************************************)
(* The package manager: installed distributions, `pip list -o`, the        *)
(* requirements file parser.                                               *)
(***************************************************************************)
\* packaging.version: a >= b on three-part release versions
VersionGE(a, b) ==
    \/ a[1] > b[1]
    \/ a[1] = b[1] /\ a[2] > b[2]
    \/ a[1] = b[1] /\ a[2] = b[2] /\ a[3] >= b[3]

required_pip_version == <<9, 0, 0>>

\* a faulty get_installed_distributions_mapping: the key is not lowered
GetInstalledDistributionsMappingNoLower(dists) ==
    LET keys == {dists[i].project_name : i \in 1..Len(dists)}
        last(k) == CHOOSE i \in 1..Len(dists) :
                      /\ dists[i].project_name = k
                      /\ \A j \in 1..Len(dists) : dists[j].project_name = k => j <= i
    IN  [k \in keys |-> [project_name |-> dists[last(k)].project_name,
                         version |-> dists[last(k)].version]]

\* get_installed_distributions_mapping(): dict() keeps the last
\* distribution of each lowered project name
GetInstalledDistributionsMapping(dists) ==
    LET keys == {Lower(dists[i].project_name) : i \in 1..Len(dists)}
        last(k) == CHOOSE i \in 1..Len(dists) :
                      /\ Lower(dists[i].project_name) = k
                      /\ \A j \in 1..Len(dists) : Lower(dists[j].project_name) = k => j <= i
    IN  [k \in keys |-> [project_name |-> dists[last(k)].project_name,
                         version |-> dists[last(k)].version]]

\* what `pip list -o --format json` prints: the installed distributions
\* for which the index holds a later version
PipListOutdated(dists) ==
    LET old == SelectSeq(dists, LAMBDA d : d.latest > d.version)
    IN  [i \in 1..Len(old) |-> [name |-> old[i].project_name,
                                version |-> old[i].version,
                                latest_version |-> old[i].latest]]

NoneValue == [kind |-> "None"]
ListValue(l) == [kind |-> "list", val |-> l]

\* get_outdated_requirements(): the list, and the number of subprocesses
\* it started; None without a subprocess when pip is older than 9.0.0
GetOutdatedRequirements(e) ==
    IF VersionGE(e.pip_version, required_pip_version)
    THEN [value |-> ListValue(PipListOutdated(e.dists)), calls |-> 1]
    ELSE [value |-> NoneValue, calls |-> 0]

\* PipOption(config).skip_requirements_regex
SkipRequirementsRegex(cfg) ==
    IF Truthy(cfg.ignore_local.val) THEN <<"^", "-", "e">> ELSE <<>>

\* re.search(regex, text) for an anchored literal regex '^...'
ReSearch(regex, text) ==
    IF regex # <<>> /\ Head(regex) = "^" THEN StartsWith(text, Tail(regex))
    ELSE Contains(text, regex)

DigitChar(n) ==
    CASE n = 1 -> "1" [] n = 2 -> "2" [] n = 3 -> "3" [] n = 4 -> "4" [] OTHER -> "9"

\* the text of a line as far as the parser's line filter reads it
LineText(l) ==
    IF l.opt # <<>> THEN l.opt \o <<" ">> \o (IF l.target # <<>> THEN l.target ELSE l.name)
    ELSE IF l.err # <<>> THEN <<"?">>
    ELSE l.name

\* '-r <filename> (line <n>)'
LineComesFrom(filename, n) ==
    <<"-", "r", " ">> \o filename \o <<" ", "(", "l", "i", "n", "e", " ">>
        \o <<DigitChar(n)>> \o <<")">>

\* pip.req.parse_requirements(filename, options): the requirements the
\* generator yields, in order, and the InstallationError that ends it if
\* one does.  A line matching skip_requirements_regex is dropped, '-r'
\* lines are parsed in place with the same options.
RECURSIVE ParseLines(_, _, _, _)
ParseLines(filename, n, fs, regex) ==
    LET lines == fs[filename]
        l     == lines[n]
        rest  == ParseLines(filename, n + 1, fs, regex)
        inner == IF l.target \in DOMAIN fs
                 THEN ParseLines(l.target, 1, fs, regex)
                 ELSE [yielded |-> <<>>,
                       raised |-> Present(<<"n", "o", " ", "f", "i", "l", "e">>)]
    IN  IF n > Len(lines) THEN [yielded |-> <<>>, raised |-> Absent]
        ELSE IF regex # <<>> /\ ReSearch(regex, LineText(l)) THEN rest
        ELSE IF l.err # <<>> THEN [yielded |-> <<>>, raised |-> Present(l.err)]
        ELSE IF l.opt = <<"-", "r">>
             THEN IF inner.raised.has THEN inner
                  ELSE [yielded |-> inner.yielded \o rest.yielded, raised |-> rest.raised]
        ELSE [yielded |-> << [name |-> l.name,
                              specifier |-> l.specifier,
                              editable |-> l.opt # <<>>,
                              comes_from |-> LineComesFrom(filename, n)] >> \o rest.yielded,
              raised |-> rest.raised]

ParseRequirements(filename, fs, cfg) ==
    ParseLines(filename, 1, fs, SkipRequirementsRegex(cfg))

\* a faulty message: the whole text of the parser's error
FirstLineWhole(s) == s

\* e.args[0].split('\n')[0]
FirstLine(s) ==
    LET nl == {i \in 1..Len(s) : s[i] = "\n"}
    IN  IF nl = {} THEN s
        ELSE SubSeq(s, 1, (CHOOSE i \in nl : \A j \in nl : i <= j) - 1)

\* '%s (from -r %s)'
ParseErrorMessage(err, filename) ==
    FirstLine(err) \o <<" ", "(", "f", "r", "o", "m", " ", "-", "r", " ">> \o filename \o <<")">>

ReqsError(msg) == [kind |-> "ReqsError", msg |-> msg]
Passed == [kind |-> "passed"]
TypeError == [kind |-> "TypeError"]
NotRun == [kind |-> "notrun"]

\* a faulty filter: the origin of a requirement is not looked at
DirectRequirementsAnyOrigin(filename, reqs) ==
    SelectSeq(reqs, LAMBDA r : r.name # <<>>)

\* the requirements the dict of get_requirements is built from
DirectRequirements(filename, reqs) ==
    SelectSeq(reqs, LAMBDA r : r.name # <<>> /\ Contains(r.comes_from, filename))

\* ReqsFile.get_requirements(): name_to_req, or the ReqsError raised
GetRequirements(filename, fs, cfg) ==
    LET parsed == ParseRequirements(filename, fs, cfg)
        reqs   == DirectRequirements(filename, parsed.yielded)
        keys   == {Lower(reqs[i].name) : i \in 1..Len(reqs)}
        last(k) == CHOOSE i \in 1..Len(reqs) :
                      /\ Lower(reqs[i].name) = k
                      /\ \A j \in 1..Len(reqs) : Lower(reqs[j].name) = k => j <= i
    IN  IF parsed.raised.has
        THEN [raised |-> Present(ReqsError(ParseErrorMessage(parsed.raised.val, filename))),
              name_to_req |-> <<>>]
        ELSE [raised |-> Absent, name_to_req |-> [k \in keys |-> reqs[last(k)]]]

(***************************************************************************)
(* The check items.                                                        *)
(***************************************************************************)
\* packaging.specifiers.SpecifierSet.contains on whole-number versions
SpecifierContains(specifier, version) ==
    \A i \in 1..Len(specifier) :
        CASE specifier[i].op = "==" -> version = specifier[i].v
          [] specifier[i].op = ">=" -> version >= specifier[i].v
          [] specifier[i].op = "<"  -> version < specifier[i].v

\* a faulty ReqsItem.runtest: the distribution is popped from the mapping
ReqsItem_runtest_pop(self, parent) ==
    LET name == self.name
        req  == self.requirement
        inst == parent.installed_distributions
    IN  [raised |->
            IF name \notin DOMAIN inst
            THEN ReqsError([fmt |-> "is not installed", name |-> name])
            ELSE IF ~SpecifierContains(req.specifier, inst[name].version)
            THEN ReqsError([fmt |-> "requires but is installed",
                            name |-> inst[name].project_name,
                            req |-> req,
                            version |-> inst[name].version])
            ELSE Passed,
         parent |-> [parent EXCEPT !.installed_distributions =
                        [k \in (DOMAIN inst) \ {name} |-> inst[k]]]]

\* ReqsItem.runtest(): what it raises, and the ReqsFile as it leaves it
ReqsItem_runtest(self, parent) ==
    LET name == self.name
        req  == self.requirement
        inst == parent.installed_distributions
    IN  [raised |->
            IF name \notin DOMAIN inst
            THEN ReqsError([fmt |-> "is not installed", name |-> name])
            ELSE IF ~SpecifierContains(req.specifier, inst[name].version)
            THEN ReqsError([fmt |-> "requires but is installed",
                            name |-> inst[name].project_name,
                            req |-> req,
                            version |-> inst[name].version])
            ELSE Passed,
         parent |-> parent]

\* OutdatedReqsItem.runtest(): iterating None is a TypeError
OutdatedReqsItem_runtest(self, parent) ==
    LET name  == self.name
        req   == self.requirement
        dists == parent.pip_outdated_dists
        hits  == {i \in 1..Len(dists.val) : name = dists.val[i].name}
        first == CHOOSE i \in hits : \A j \in hits : i <= j
    IN  [raised |->
            IF dists.kind = "None" THEN TypeError
            ELSE IF hits # {}
            THEN ReqsError([fmt |-> "is outdated",
                            name |-> name,
                            comes_from |-> req.comes_from,
                            latest_version |-> dists.val[first].latest_version])
            ELSE Passed,
         parent |-> parent]

Runtest(self, parent) ==
    IF self.cls = "ReqsItem" THEN ReqsItem_runtest(self, parent)
    ELSE OutdatedReqsItem_runtest(self, parent)

\* ReqsFile.__init__ as pytest_collect_file calls it
NewReqsFile(path, e) ==
    [filename |-> path,
     installed_distributions |-> GetInstalledDistributionsMapping(e.dists),
     pip_outdated_dists |-> NoneValue,
     collected |-> FALSE,
     error |-> Absent,
     items |-> <<>>]

NewItem(cls, name, req) ==
    [cls |-> cls, name |-> name, requirement |-> req, outcome |-> NotRun]

\* a faulty loop body: the outdated item is yielded first
RECURSIVE YieldItemsOutdatedFirst(_, _, _)
YieldItemsOutdatedFirst(order, name_to_req, e) ==
    IF order = <<>> THEN <<>>
    ELSE (IF e.option_reqs_outdated
          THEN <<NewItem("OutdatedReqsItem", Head(order), name_to_req[Head(order)])>> ELSE <<>>)
         \o (IF e.option_reqs
             THEN <<NewItem("ReqsItem", Head(order), name_to_req[Head(order)])>> ELSE <<>>)
         \o YieldItemsOutdatedFirst(Tail(order), name_to_req, e)

\* the body of the loop of ReqsFile.collect over name_to_req.items(),
\* taken in the order the dict gives
RECURSIVE YieldItems(_, _, _)
YieldItems(order, name_to_req, e) ==
    IF order = <<>> THEN <<>>
    ELSE (IF e.option_reqs
          THEN <<NewItem("ReqsItem", Head(order), name_to_req[Head(order)])>> ELSE <<>>)
         \o (IF e.option_reqs_outdated
             THEN <<NewItem("OutdatedReqsItem", Head(order), name_to_req[Head(order)])>> ELSE <<>>)
         \o YieldItems(Tail(order), name_to_req, e)

\* the orders a dict may give its keys in
KeyOrders(keys) ==
    {o \in [1..Cardinality(keys) -> keys] : \A i, j \in DOMAIN o : o[i] = o[j] => i = j}

\* a faulty collect: the outdated packages are queried whatever the flag
CollectAlwaysOutdated(rf, e, cfg, fs, order) ==
    LET out == GetOutdatedRequirements(e)
        got == GetRequirements(rf.filename, fs, cfg)
    IN  [calls |-> out.calls,
         reqsfile |-> [rf EXCEPT !.pip_outdated_dists = out.value,
                                 !.collected = TRUE,
                                 !.error = got.raised,
                                 !.items = IF got.raised.has THEN <<>>
                                           ELSE YieldItems(order, got.name_to_req, e)]]

\* ReqsFile.collect(), run to its end: the ReqsFile it leaves and the
\* number of subprocesses started
Collect(rf, e, cfg, fs, order) ==
    LET out == IF e.option_reqs_outdated THEN GetOutdatedRequirements(e)
               ELSE [value |-> rf.pip_outdated_dists, calls |-> 0]
        got == GetRequirements(rf.filename, fs, cfg)
    IN  [calls |-> out.calls,
         reqsfile |-> [rf EXCEPT !.pip_outdated_dists = out.value,
                                 !.collected = TRUE,
                                 !.error = got.raised,
                                 !.items = IF got.raised.has THEN <<>>
                                           ELSE YieldItems(order, got.name_to_req, e)]]

(***************************************************************************)
(* The environments the runs are checked in.                               *)
(***************************************************************************)
NameDj == <<"D", "j">>
Namedj == <<"d", "j">>
Namefl == <<"f", "l">>

PathBase == <<"/", "p", "/", "b", "a", "s", "e", ".", "t", "x", "t">>
PathDeps == <<"/", "p", "/", "d", "e", "p", "s", ".", "t", "x", "t">>
PathReq == <<"/", "p", "/", "r", "e", "q", ".", "t", "x", "t">>
PathReqPip ==
    <<"/", "p", "/", "r", "e", "q", "u", "i", "r", "e", "m", "e", "n", "t", "s", "/", "b", ".", "p", "i", "p">>

\* the files of the project in the order the directory is walked
Paths == <<PathBase, PathDeps, PathReq, PathReqPip>>

ReqLine(name, specifier) ==
    [opt |-> <<>>, name |-> name, specifier |-> specifier, target |-> <<>>, err |-> <<>>]
EditableLine(name) ==
    [opt |-> <<"-", "e">>, name |-> name, specifier |-> <<>>, target |-> <<>>, err |-> <<>>]
IncludeLine(target) ==
    [opt |-> <<"-", "r">>, name |-> <<>>, specifier |-> <<>>, target |-> target, err |-> <<>>]
InvalidLine(err) ==
    [opt |-> <<>>, name |-> <<>>, specifier |-> <<>>, target |-> <<>>, err |-> err]

\* 'dj>=2', 'Dj==1', 'fl', '-e git+x#egg=fl', '-e .', '-r /p/base.txt' and
\* a line the parser rejects with a two-line message
LineChoices ==
    { ReqLine(Namedj, << [op |-> ">=", v |-> 2] >>),
      ReqLine(NameDj, << [op |-> "==", v |-> 1] >>),
      ReqLine(Namefl, <<>>),
      EditableLine(Namefl),
      EditableLine(<<>>),
      IncludeLine(PathBase),
      InvalidLine(<<"b", "a", "d", "\n", "h", "i", "n", "t">>) }

FileChoices == UNION {[1..n -> LineChoices] : n \in 0..MaxLines}

Dist(name, version, latest) ==
    [project_name |-> name, version |-> version, latest |-> latest]

InstalledChoices ==
    { <<>>,
      << Dist(NameDj, 1, 1) >>,
      << Dist(NameDj, 2, 3) >>,
      << Dist(Namedj, 2, 3), Dist(Namefl, 1, 1) >>,
      << Dist(Namefl, 1, 2), Dist(NameDj, 3, 3) >> }

PatternChoices ==
    { <<>>,
      << <<"d", "e", "p", "*", ".", "t", "x", "t">> >>,
      << <<"*", ".", "p", "i", "p">>, <<"d", "e", "p", "*", ".", "t", "x", "t">> >> }

IgnoreLocalChoices ==
    { <<>>, <<"n", "o">>, <<"T", "r", "u", "e">>, <<"m", "a", "y", "b", "e">> }

PipVersionChoices == { <<8, 1, 2>>, <<9, 0, 0>>, <<9, 0, 1>> }

FileSystem(req, deps, pip) ==
    (PathBase :> << ReqLine(Namefl, << [op |-> "==", v |-> 2] >>) >>)
        @@ (PathDeps :> deps) @@ (PathReq :> req) @@ (PathReqPip :> pip)

\* the contents of /p/req.txt in the runs that vary the environment
RunFileChoices ==
    { << ReqLine(Namedj, << [op |-> ">=", v |-> 2] >>), ReqLine(Namefl, <<>>) >>,
      << ReqLine(NameDj, << [op |-> "==", v |-> 1] >>) >>,
      << ReqLine(Namefl, <<>>), IncludeLine(PathBase) >>,
      << InvalidLine(<<"b", "a", "d", "\n", "h", "i", "n", "t">>) >> }

DepsFile == << ReqLine(NameDj, <<>>) >>
ReqPipFile == << ReqLine(Namefl, << [op |-> "<", v |-> 2] >>) >>

\* environments that vary the options, the patterns, pip and what is
\* installed, over a few requirements files
Envs ==
    [option_reqs : BOOLEAN,
     option_reqs_outdated : BOOLEAN,
     continue_on_collection_errors : BOOLEAN,
     ini_reqsignorelocal : {<<>>},
     ini_reqsfilenamepatterns : PatternChoices,
     pip_version : PipVersionChoices,
     dists : InstalledChoices,
     config0 : [ignore_local : {Absent},
                patterns : {Absent, Present(<< <<"*", ".", "p", "i", "p">> >>)}],
     fs : {FileSystem(r, DepsFile, ReqPipFile) : r \in RunFileChoices}]

\* environments that vary the content of /p/req.txt and reqsignorelocal,
\* under the runner's defaults
EnvsFiles ==
    [option_reqs : BOOLEAN,
     option_reqs_outdated : BOOLEAN,
     continue_on_collection_errors : {FALSE},
     ini_reqsignorelocal : IgnoreLocalChoices,
     ini_reqsfilenamepatterns : {<<>>},
     pip_version : {<<9, 0, 1>>},
     dists : {<< Dist(Namedj, 2, 3), Dist(Namefl, 1, 1) >>},
     config0 : [ignore_local : {Absent, Present(0), Present(1)},
                patterns : {Absent}],
     fs : {FileSystem(r, DepsFile, ReqPipFile) : r \in FileChoices}]

(***************************************************************************)
(* The test run.                                                           *)
(***************************************************************************)
InitIn(E) ==
    /\ env \in E
    /\ config = env.config0
    /\ phase = "start"
    /\ idx = 1
    /\ reqsfiles = <<>>
    /\ subprocess_calls = 0
    /\ run = 1
    /\ history = <<>>

Init == InitIn(Envs)

InitFiles == InitIn(EnvsFiles)

\* pytest_sessionstart; a ValueError of strtobool ends the session
PytestSessionStart ==
    /\ phase = "start"
    /\ LET r == SessionStart(config, env)
       IN  IF r.raised
           THEN phase' = "crashed" /\ UNCHANGED config
           ELSE phase' = "collect" /\ config' = r.config
    /\ UNCHANGED <<env, idx, reqsfiles, subprocess_calls, run, history>>

AllCollected == \A f \in 1..Len(reqsfiles) : reqsfiles[f].collected

\* pytest_collect_file(parent, path) for the next file of the walk
PytestCollectFile ==
    /\ phase = "collect"
    /\ idx <= Len(Paths)
    /\ AllCollected
    /\ reqsfiles' = IF IsRequirements(config, Paths[idx])
                    THEN Append(reqsfiles, NewReqsFile(Paths[idx], env))
                    ELSE reqsfiles
    /\ idx' = idx + 1
    /\ UNCHANGED <<env, config, phase, subprocess_calls, run, history>>

\* ReqsFile.collect() of the file just created
ReqsFileCollect ==
    /\ phase = "collect"
    /\ ~AllCollected
    /\ LET f  == Len(reqsfiles)
           rf == reqsfiles[f]
       IN  \E order \in KeyOrders(DOMAIN GetRequirements(rf.filename, env.fs, config).name_to_req) :
              LET c == Collect(rf, env, config, env.fs, order)
              IN  /\ reqsfiles' = [reqsfiles EXCEPT ![f] = c.reqsfile]
                  /\ subprocess_calls' = subprocess_calls + c.calls
    /\ UNCHANGED <<env, config, phase, idx, run, history>>

CollectionErrors == \E f \in 1..Len(reqsfiles) : reqsfiles[f].error.has

\* the end of collection: when a file failed to collect the runner stops
\* there, unless it was started with --continue-on-collection-errors
CollectionFinish ==
    /\ phase = "collect"
    /\ idx > Len(Paths)
    /\ AllCollected
    /\ phase' = IF CollectionErrors /\ ~env.continue_on_collection_errors
                THEN "finished" ELSE "run"
    /\ UNCHANGED <<env, config, idx, reqsfiles, subprocess_calls, run, history>>

Pending ==
    UNION {{<<f, i>> : i \in {j \in 1..Len(reqsfiles[f].items) :
                                 reqsfiles[f].items[j].outcome = NotRun}} :
           f \in 1..Len(reqsfiles)}

NextItem ==
    CHOOSE p \in Pending :
        \A q \in Pending : p[1] < q[1] \/ (p[1] = q[1] /\ p[2] <= q[2])

\* item.runtest() of the next item, its exception caught by the runner
RunItem ==
    /\ phase = "run"
    /\ Pending # {}
    /\ LET f == NextItem[1]
           i == NextItem[2]
           r == Runtest(reqsfiles[f].items[i], reqsfiles[f])
       IN  reqsfiles' = [reqsfiles EXCEPT ![f] =
                            [r.parent EXCEPT !.items[i].outcome = r.raised]]
    /\ UNCHANGED <<env, config, phase, idx, subprocess_calls, run, history>>

\* what a run reports
Report ==
    [crashed |-> phase = "crashed",
     files |-> {[filename |-> reqsfiles[f].filename,
                 error |-> reqsfiles[f].error,
                 items |-> {[cls |-> reqsfiles[f].items[i].cls,
                             name |-> reqsfiles[f].items[i].name,
                             outcome |-> reqsfiles[f].items[i].outcome] :
                            i \in 1..Len(reqsfiles[f].items)}] :
               f \in 1..Len(reqsfiles)}]

SessionFinish ==
    /\ phase = "run"
    /\ Pending = {}
    /\ phase' = "finished"
    /\ UNCHANGED <<env, config, idx, reqsfiles, subprocess_calls, run, history>>

\* the same command again, in the same environment
NewRun ==
    /\ phase \in {"finished", "crashed"}
    /\ run < MaxRuns
    /\ history' = Append(history, Report)
    /\ run' = run + 1
    /\ config' = env.config0
    /\ phase' = "start"
    /\ idx' = 1
    /\ reqsfiles' = <<>>
    /\ subprocess_calls' = 0
    /\ UNCHANGED env

Next ==
    \/ PytestSessionStart
    \/ PytestCollectFile
    \/ ReqsFileCollect
    \/ CollectionFinish
    \/ RunItem
    \/ SessionFinish
    \/ NewRun

Spec == Init /\ [][Next]_vars

SpecFiles == InitFiles /\ [][Next]_vars

(***************************************************************************)
(* Properties.                                                             *)
(***************************************************************************)
\* the items that have run, as <<file, index>>
RanItems ==
    UNION {{<<f, i>> : i \in {j \in 1..Len(reqsfiles[f].items) :
                                 reqsfiles[f].items[j].outcome # NotRun}} :
           f \in 1..Len(reqsfiles)}

ItemAt(p) == reqsfiles[p[1]].items[p[2]]

\* the installed distribution a requirement name joins to, read from the
\* environment: the last one whose project name equals it ignoring case
DistsNamed(name) ==
    {k \in 1..Len(env.dists) : Lower(env.dists[k].project_name) = Lower(name)}

InstalledFor(name) ==
    env.dists[CHOOSE k \in DistsNamed(name) : \A j \in DistsNamed(name) : j <= k]

\* C1: an installed-version check fails with a ReqsError exactly when no
\* installed distribution has the requirement's name (ignoring case) or the
\* installed version is outside the requirement's specifier; otherwise it
\* passes.
C1_FailIffMissingOrOutOfRange ==
    \A p \in RanItems :
        ItemAt(p).cls = "ReqsItem" =>
            LET R  == ItemAt(p).requirement
                ok == /\ DistsNamed(R.name) # {}
                      /\ SpecifierContains(R.specifier, InstalledFor(R.name).version)
            IN  /\ ok => ItemAt(p).outcome = Passed
                /\ ~ok => ItemAt(p).outcome.kind = "ReqsError"

\* a version mismatch found through a join of differently cased names
C1_Witness ==
    \E p \in RanItems :
        /\ ItemAt(p).cls = "ReqsItem"
        /\ ItemAt(p).outcome.kind = "ReqsError"
        /\ ItemAt(p).outcome.msg.fmt = "requires but is installed"
        /\ ItemAt(p).outcome.msg.name # ItemAt(p).requirement.name
        /\ \E q \in RanItems : ItemAt(q).cls = "ReqsItem" /\ ItemAt(q).outcome = Passed

\* the records `pip list -o` printed whose name equals a requirement's
\* name ignoring case
OutdatedNamed(name) ==
    {k \in 1..Len(PipListOutdated(env.dists)) :
        Lower(PipListOutdated(env.dists)[k].name) = Lower(name)}

\* C2: an outdated check reports 'is outdated' exactly when the outdated
\* list holds a record whose name equals the requirement's ignoring case.
C2_OutdatedJoinsByFoldedName ==
    \A p \in RanItems :
        (/\ ItemAt(p).cls = "OutdatedReqsItem"
         /\ reqsfiles[p[1]].pip_outdated_dists.kind = "list") =>
            (ItemAt(p).outcome.kind = "ReqsError"
                <=> OutdatedNamed(ItemAt(p).requirement.name) # {})

\* C3: every item that ran ended in a pass or in a ReqsError.
C3_OnlyPassOrReqsError ==
    \A p \in RanItems : ItemAt(p).outcome.kind \in {"passed", "ReqsError"}

CollectionDone == phase \in {"run", "finished"}

\* C4 as stated, for a pip that can list outdated packages: with
\* --reqs-outdated the subprocess ran exactly once in the run, and without
\* it not at all.
C4_OncePerRun ==
    (CollectionDone /\ VersionGE(env.pip_version, <<9, 0, 0>>)) =>
        subprocess_calls = IF env.option_reqs_outdated THEN 1 ELSE 0

CollectedFiles == {f \in 1..Len(reqsfiles) : reqsfiles[f].collected}

\* C4 amended: the subprocess runs once in the collection of each
\* requirements file when --reqs-outdated is set and pip is at least
\* 9.0.0, so as many times as files were collected; otherwise never.
C4_OncePerCollectedFile ==
    subprocess_calls =
        IF env.option_reqs_outdated /\ VersionGE(env.pip_version, <<9, 0, 0>>)
        THEN Cardinality(CollectedFiles)
        ELSE 0

C4_Witness ==
    /\ CollectionDone
    /\ env.option_reqs_outdated
    /\ Cardinality(CollectedFiles) = 2
    /\ subprocess_calls = 2

FileOf(path) == CHOOSE f \in 1..Len(reqsfiles) : reqsfiles[f].filename = path

IsCollected(path) ==
    \E f \in CollectedFiles : reqsfiles[f].filename = path

\* a file holding a line the parser rejects
Malformed(path) == \E n \in 1..Len(env.fs[path]) : env.fs[path][n].err # <<>>

ItemsFrom(rf, n) ==
    {i \in 1..Len(rf.items) :
        rf.items[i].requirement.comes_from = LineComesFrom(rf.filename, n)}

\* the lines of a file that declare a named requirement the parser reads
Declared(path, ignore) ==
    {n \in 1..Len(env.fs[path]) :
        /\ env.fs[path][n].name # <<>>
        /\ ~(ignore /\ env.fs[path][n].opt = <<"-", "e">>)}

\* the declaration that is checked for a name: the last one of that name
LastDeclared(path, ignore, n) ==
    /\ n \in Declared(path, ignore)
    /\ \A m \in Declared(path, ignore) :
          Lower(env.fs[path][m].name) = Lower(env.fs[path][n].name) => m <= n

\* C6: once the session has started, ignore_local is the value already on
\* the config if there was one and otherwise true exactly when
\* reqsignorelocal is a true word; with it true no '-e' line has a check
\* item, and with it false a named '-e' line is checked like any other
\* named line.
C6_IgnoreLocal ==
    phase \in {"collect", "run", "finished"} =>
        /\ config.ignore_local =
              IF env.config0.ignore_local.has THEN env.config0.ignore_local
              ELSE Present(IF Lower(env.ini_reqsignorelocal) \in StrToBoolTrue THEN 1 ELSE 0)
        /\ \A f \in CollectedFiles :
              LET rf  == reqsfiles[f]
                  ign == config.ignore_local.val # 0
                  any == env.option_reqs \/ env.option_reqs_outdated
              IN  ~rf.error.has =>
                    \A n \in 1..Len(env.fs[rf.filename]) :
                        env.fs[rf.filename][n].opt = <<"-", "e">> =>
                            /\ ign => ItemsFrom(rf, n) = {}
                            /\ (~ign /\ any /\ LastDeclared(rf.filename, FALSE, n))
                                   => ItemsFrom(rf, n) # {}

\* reqsignorelocal = True with nothing preset: the '-e' line of a file has
\* no item while the other line of the file has
C6_Witness ==
    /\ CollectionDone
    /\ ~env.config0.ignore_local.has
    /\ env.ini_reqsignorelocal = <<"T", "r", "u", "e">>
    /\ IsCollected(PathReq)
    /\ \E n, m \in 1..Len(env.fs[PathReq]) :
          /\ env.fs[PathReq][n].opt = <<"-", "e">>
          /\ env.fs[PathReq][n].name # <<>>
          /\ ItemsFrom(reqsfiles[FileOf(PathReq)], n) = {}
          /\ ItemsFrom(reqsfiles[FileOf(PathReq)], m) # {}

Requirements(rf) == [i \in 1..Len(rf.items) |-> rf.items[i].requirement]

\* a step of a run leaves what is installed, the files and every
\* ReqsFile's view of both as they were
ReadOnlyStep ==
    /\ env' = env
    /\ run' = run =>
          \A f \in 1..Len(reqsfiles) :
              /\ reqsfiles'[f].installed_distributions = reqsfiles[f].installed_distributions
              /\ reqsfiles[f].collected => Requirements(reqsfiles'[f]) = Requirements(reqsfiles[f])

RunOver == phase \in {"finished", "crashed"}

\* C7: no step of a run changes the installed distributions or the
\* requirement declarations, and a run that ends after an earlier run in
\* the same environment reports the same items with the same outcomes.
C7_Idempotent ==
    [][ /\ ReadOnlyStep
        /\ (RunOver' /\ history' # <<>>) => Report' = history'[1] ]_vars

\* a second run ended with the report of the first, which holds a passed
\* and a failed item
C7_Witness ==
    /\ run = 2
    /\ phase = "finished"
    /\ Report = history[1]
    /\ \E p, q \in RanItems :
          ItemAt(p).outcome = Passed /\ ItemAt(q).outcome.kind = "ReqsError"

ItemsOfClass(rf, cls) == {i \in 1..Len(rf.items) : rf.items[i].cls = cls}

\* C8: a collected file has one ReqsItem per requirement of
\* get_requirements exactly when --reqs is set and one OutdatedReqsItem per
\* requirement exactly when --reqs-outdated is set; with both, each
\* ReqsItem is followed at once by the OutdatedReqsItem of its requirement;
\* with neither there are no items.
C8_ItemsPerFlag ==
    \A f \in CollectedFiles :
        LET rf   == reqsfiles[f]
            n2r  == GetRequirements(rf.filename, env.fs, config).name_to_req
            one(cls) ==
                /\ Cardinality(ItemsOfClass(rf, cls)) = Cardinality(DOMAIN n2r)
                /\ \A k \in DOMAIN n2r :
                      \E i \in ItemsOfClass(rf, cls) :
                          rf.items[i].name = k /\ rf.items[i].requirement = n2r[k]
        IN  ~rf.error.has =>
              /\ IF env.option_reqs THEN one("ReqsItem")
                 ELSE ItemsOfClass(rf, "ReqsItem") = {}
              /\ IF env.option_reqs_outdated THEN one("OutdatedReqsItem")
                 ELSE ItemsOfClass(rf, "OutdatedReqsItem") = {}
              /\ (env.option_reqs /\ env.option_reqs_outdated) =>
                    \A i \in ItemsOfClass(rf, "ReqsItem") :
                        /\ i + 1 \in ItemsOfClass(rf, "OutdatedReqsItem")
                        /\ rf.items[i + 1].name = rf.items[i].name
              /\ (~env.option_reqs /\ ~env.option_reqs_outdated) => rf.items = <<>>

\* both flags and a file of two requirements: four items
C8_Witness ==
    /\ env.option_reqs /\ env.option_reqs_outdated
    /\ \E f \in CollectedFiles :
          /\ Len(reqsfiles[f].items) = 4
          /\ reqsfiles[f].items[1].cls = "ReqsItem"
          /\ reqsfiles[f].items[3].name # reqsfiles[f].items[1].name

\* the configured pattern list: reqsfilenamepatterns, unless the config
\* already carried a list when the session started
ConfiguredPatterns ==
    IF env.config0.patterns.has THEN env.config0.patterns.val
    ELSE env.ini_reqsfilenamepatterns

ActivePatterns ==
    IF ConfiguredPatterns # <<>> THEN ConfiguredPatterns ELSE DEFAULT_PATTERNS

\* C9: a file the walk has passed is a requirements file exactly when its
\* path matches a pattern of the active list: the configured list when it
\* is not empty, the four defaults otherwise and only then.
C9_CollectedIffMatchesActive ==
    phase \in {"collect", "run", "finished"} =>
        \A i \in 1..(idx - 1) :
            (\E f \in 1..Len(reqsfiles) : reqsfiles[f].filename = Paths[i])
                <=> (\E g \in 1..Len(ActivePatterns) :
                        PathCheckFnmatch(Paths[i], ActivePatterns[g]))

\* a configured pattern collects /p/deps.txt and leaves out /p/req.txt,
\* which only a default pattern matches
C9_Witness ==
    /\ CollectionDone
    /\ ~env.config0.patterns.has
    /\ env.ini_reqsfilenamepatterns # <<>>
    /\ IsCollected(PathDeps)
    /\ ~IsCollected(PathReq)
    /\ PathCheckFnmatch(PathReq, DEFAULT_PATTERNS[1])

\* C10: a collected file has, per flag, one item for each distinct
\* case-folded name declared by a line of that file; the item checks the
\* last declaration of the name; lines without a name and the lines of a
\* file it includes have no item.
C10_OneItemPerFoldedName ==
    \A f \in CollectedFiles :
        LET rf    == reqsfiles[f]
            path  == rf.filename
            decl  == Declared(path, config.ignore_local.val # 0)
            names == {Lower(env.fs[path][n].name) : n \in decl}
            flags == {c \in {"ReqsItem", "OutdatedReqsItem"} :
                         \/ c = "ReqsItem" /\ env.option_reqs
                         \/ c = "OutdatedReqsItem" /\ env.option_reqs_outdated}
        IN  ~rf.error.has =>
              /\ \A c \in flags : Cardinality(ItemsOfClass(rf, c)) = Cardinality(names)
              /\ \A i \in 1..Len(rf.items) :
                    \E n \in decl :
                        /\ LastDeclared(path, config.ignore_local.val # 0, n)
                        /\ rf.items[i].name = Lower(env.fs[path][n].name)
                        /\ rf.items[i].requirement.name = env.fs[path][n].name
                        /\ rf.items[i].requirement.specifier = env.fs[path][n].specifier
                        /\ rf.items[i].requirement.comes_from = LineComesFrom(path, n)

\* 'Dj==1' then 'dj>=2': one item, for the second line
C10_Witness ==
    /\ IsCollected(PathReq)
    /\ Len(env.fs[PathReq]) = 2
    /\ env.fs[PathReq][1].name = NameDj
    /\ env.fs[PathReq][2].name = Namedj
    /\ env.option_reqs /\ ~env.option_reqs_outdated
    /\ Len(reqsfiles[FileOf(PathReq)].items) = 1
    /\ reqsfiles[FileOf(PathReq)].items[1].requirement.name = Namedj

====
